---------------------------- MODULE Spec2Model ----------------------------
(***************************************************************************)
(* Model of the two flight scripts of the repository:                      *)
(*   src/mavsdk-px4.py  velocity strategy (MAVSDK offboard velocity)       *)
(*   src/ros2-test.py   mission strategy (pymavlink mission upload)        *)
(* One behaviour is one run of one script; `strategy` says which.          *)
(* The vehicle is the environment: it accepts or refuses each awaited      *)
(* MAVSDK call, and it sends (or does not send) MISSION_REQUEST and        *)
(* MISSION_ACK messages to the pymavlink link.                             *)
(***************************************************************************)
EXTENDS Integers, Sequences, FiniteSets, TLC

VARIABLES
    strategy,   \* "velocity" (mavsdk-px4.py) or "mission" (ros2-test.py)
    connected,  \* the script has seen is_connected / a heartbeat
    pc,         \* position of the script
    cmds,       \* calls made on the vehicle interface, in order
    rejected,   \* positions in cmds of the calls the vehicle refused (raised)
    clock,      \* velocity script: asyncio time spent in sleeps (0 in the mission script)
    legs,       \* boustrophedon_path argument
    length,     \* boustrophedon_path argument
    spacing,    \* boustrophedon_path argument
    speed,      \* boustrophedon_path argument
    i,          \* loop variable of the running for-loop
    phase,      \* velocity script: which call of the loop body comes next
    numSweeps,  \* mission script: NUM_SWEEPS
    points,     \* mission script: the generated waypoint list
    msg,        \* mission script: the variable msg (last recv_match result)
    stdout,     \* mission script: the lines printed, in order
    reqExpiredAt, \* history: loop index of the first MISSION_REQUEST wait that expired, or -1
    reqWrongAt,   \* history: loop index of the first wait answered by a request for another index, or -1
    reqRaisedAt,  \* history: loop index of the wait in which recv_match raised, or -1
    ackResult,    \* history: outcome of the MISSION_ACK wait
    waits         \* history: number of recv_match calls made

vars == <<strategy, connected, pc, cmds, rejected, clock, legs, length, spacing, speed,
          i, phase, numSweeps, points, msg, stdout, reqExpiredAt, reqWrongAt,
          reqRaisedAt, ackResult, waits>>

velVars == <<legs, length, spacing, speed, phase, clock>>
misVars == <<numSweeps, points, msg, stdout, reqExpiredAt, reqWrongAt, reqRaisedAt,
            ackResult, waits>>

-----------------------------------------------------------------------------
(* Bounds of the model and the values the scripts fix.                     *)
(* boustrophedon_path is explored for legs in 1..MaxLegs and for the        *)
(* lengths, spacings and speeds below, which include the arguments run()    *)
(* passes (4, 10, 3, 1).  The waypoint generation is explored for every     *)
(* sweep count in 1..MaxSweeps, which includes NUM_SWEEPS.                  *)

MaxLegs == 4
MaxSweeps == 5

RunLegs == 4
RunLength == 10
RunSpacing == 3
RunSpeed == 1
TAKEOFF_ALTITUDE == 5
NUM_SWEEPS == 5
SPACING == 1
ALT == 30
LAT_START_E7 == 153675792
LON_START_E7 == 751254539
SWEEP_LENGTH == 5
DEG_E7 == 10000000

Lengths == {2, RunLength}
Spacings == {RunSpacing, 4}
Speeds == {RunSpeed, 2}

-----------------------------------------------------------------------------
(* Calls on the vehicle interface.                                         *)

Cmd(op, args) == [op |-> op, args |-> args, at |-> clock]

CmdAt(op, args, t) == [op |-> op, args |-> args, at |-> t]

VelocityNedYaw(north, east, down, yaw) == <<north, east, down, yaw>>

Count(s, op) == Cardinality({k \in 1..Len(s) : s[k].op = op})

Positions(s, op) == {k \in 1..Len(s) : s[k].op = op}

RECURSIVE SelectOp(_, _)
SelectOp(s, op) ==
    IF s = <<>> THEN <<>>
    ELSE IF Head(s).op = op THEN <<Head(s)>> \o SelectOp(Tail(s), op)
         ELSE SelectOp(Tail(s), op)

-----------------------------------------------------------------------------
(* src/mavsdk-px4.py                                                       *)

YawForward == 0
YawReverse == 180
YawShift == 90
TurnSettle == 2
BrakeSettle == 1

LegForward(k) == k % 2 = 0

LegYaw(k) == IF LegForward(k) THEN YawForward ELSE YawReverse

LegSpeedUnsigned(k, s) == s

LegSpeed(k, s) == IF LegForward(k) THEN s ELSE 0 - s

HasShiftAfterEveryLeg(k, n) == k < n

HasShift(k, n) == k < n - 1

\* An awaited call the vehicle refuses raises; outside run()'s try block
\* nothing catches it and asyncio.run() ends the script.
Uncaught ==
    /\ pc' = "crashed"
    /\ UNCHANGED <<i, phase>>

AfterFirstConnectionState(is_connected) == "set_takeoff_altitude"

\* if state.is_connected: break
AfterConnectionState(is_connected) ==
    IF is_connected THEN "set_takeoff_altitude" ELSE "connection_state"

\* One state of the drone.core.connection_state() stream.
WaitConnected ==
    /\ strategy = "velocity"
    /\ pc = "connection_state"
    /\ \E is_connected \in BOOLEAN :
          /\ connected' = is_connected
          /\ pc' = AfterConnectionState(is_connected)
    /\ UNCHANGED <<strategy, cmds, rejected, i>>
    /\ UNCHANGED velVars
    /\ UNCHANGED misVars

\* One awaited drone.action call followed by a sleep: the call is made, and
\* either returns (sleep, go on) or raises ActionError (uncaught).
ActionCall(at, op, args, sleep, next) ==
    /\ strategy = "velocity"
    /\ pc = at
    /\ cmds' = Append(cmds, Cmd(op, args))
    /\ \E ok \in BOOLEAN :
          IF ok
          THEN /\ rejected' = rejected
               /\ clock' = clock + sleep
               /\ pc' = next
               /\ UNCHANGED <<i, phase>>
          ELSE /\ rejected' = rejected \cup {Len(cmds) + 1}
               /\ clock' = clock
               /\ Uncaught
    /\ UNCHANGED <<strategy, connected, legs, length, spacing, speed>>
    /\ UNCHANGED misVars

SetTakeoffAltitude ==
    ActionCall("set_takeoff_altitude", "set_takeoff_altitude", <<TAKEOFF_ALTITUDE>>, 0, "arm")

Arm == ActionCall("arm", "arm", <<>>, 1, "takeoff")

Takeoff == ActionCall("takeoff", "takeoff", <<>>, 6, "set_initial_velocity")

\* The except block without its return: the script goes on to the path.
DisarmAndContinue(failed) ==
    /\ cmds' = Append(failed, Cmd("disarm", <<>>))
    /\ rejected' = rejected \cup {Len(failed)}
    /\ pc' = "boustrophedon_path"
    /\ i' = 0
    /\ phase' = "leg_turn"
    /\ UNCHANGED clock

\* except OffboardError: await drone.action.disarm(); return
\* `failed` is cmds with the refused call appended.
DisarmAndReturn(failed) ==
    /\ cmds' = Append(failed, Cmd("disarm", <<>>))
    /\ \E ok \in BOOLEAN :
          IF ok
          THEN /\ rejected' = rejected \cup {Len(failed)}
               /\ pc' = "returned"
          ELSE /\ rejected' = rejected \cup {Len(failed), Len(failed) + 1}
               /\ pc' = "crashed"
    /\ UNCHANGED <<i, phase, clock>>

SetInitialVelocity ==
    /\ strategy = "velocity"
    /\ pc = "set_initial_velocity"
    /\ LET call == Cmd("set_velocity_ned", VelocityNedYaw(0, 0, 0, 0))
       IN \E ok \in BOOLEAN :
             IF ok
             THEN /\ cmds' = Append(cmds, call)
                  /\ pc' = "offboard_start"
                  /\ UNCHANGED <<rejected, i, phase, clock>>
             ELSE DisarmAndReturn(Append(cmds, call))
    /\ UNCHANGED <<strategy, connected, legs, length, spacing, speed>>
    /\ UNCHANGED misVars

FirstPhase == "leg_turn"

OffboardStart ==
    /\ strategy = "velocity"
    /\ pc = "offboard_start"
    /\ LET call == Cmd("offboard_start", <<>>)
       IN \E ok \in BOOLEAN :
             IF ok
             THEN /\ cmds' = Append(cmds, call)
                  /\ pc' = "boustrophedon_path"
                  /\ i' = 0
                  /\ phase' = FirstPhase
                  /\ UNCHANGED <<rejected, clock>>
             ELSE DisarmAndReturn(Append(cmds, call))
    /\ UNCHANGED <<strategy, connected, legs, length, spacing, speed>>
    /\ UNCHANGED misVars

\* for i in range(legs): there is an iteration after iteration k.
RangeHasNext(k, n) == k + 1 < n

PhaseYaw(p, k) == IF p \in {"leg_turn", "leg_move"} THEN LegYaw(k) ELSE YawShift

MoveSpeed(p, k, s) == IF p = "leg_move" THEN LegSpeed(k, s) ELSE s

MoveDuration(p, len, sp) == IF p = "leg_move" THEN len ELSE sp

\* turn_to(drone, yaw_deg)
TurnTo ==
    /\ strategy = "velocity"
    /\ pc = "boustrophedon_path"
    /\ phase \in {"leg_turn", "shift_turn"}
    /\ cmds' = Append(cmds, Cmd("set_velocity_ned",
                                VelocityNedYaw(0, 0, 0, PhaseYaw(phase, i))))
    /\ \E ok \in BOOLEAN :
          IF ok
          THEN /\ rejected' = rejected
               /\ clock' = clock + TurnSettle
               /\ phase' = IF phase = "leg_turn" THEN "leg_move" ELSE "shift_move"
               /\ UNCHANGED <<pc, i>>
          ELSE /\ rejected' = rejected \cup {Len(cmds) + 1}
               /\ clock' = clock
               /\ Uncaught
    /\ UNCHANGED <<strategy, connected, legs, length, spacing, speed>>
    /\ UNCHANGED misVars

\* move_forward(drone, duration, speed, yaw_deg), and the loop control that
\* follows it in boustrophedon_path: after a leg the shift if there is one,
\* otherwise the next iteration of the for-loop or its end.
MoveForward ==
    /\ strategy = "velocity"
    /\ pc = "boustrophedon_path"
    /\ phase \in {"leg_move", "shift_move"}
    /\ LET yaw == PhaseYaw(phase, i)
           duration == MoveDuration(phase, length, spacing)
           move == Cmd("set_velocity_ned",
                       VelocityNedYaw(MoveSpeed(phase, i, speed), 0, 0, yaw))
           brake == CmdAt("set_velocity_ned", VelocityNedYaw(0, 0, 0, yaw),
                          clock + duration)
       IN \E refused \in {"none", "move", "brake"} :
             CASE refused = "move" ->
                    /\ cmds' = Append(cmds, move)
                    /\ rejected' = rejected \cup {Len(cmds) + 1}
                    /\ clock' = clock
                    /\ Uncaught
               [] refused = "brake" ->
                    /\ cmds' = cmds \o <<move, brake>>
                    /\ rejected' = rejected \cup {Len(cmds) + 2}
                    /\ clock' = clock + duration
                    /\ Uncaught
               [] OTHER ->
                    /\ cmds' = cmds \o <<move, brake>>
                    /\ rejected' = rejected
                    /\ clock' = clock + duration + BrakeSettle
                    /\ IF phase = "leg_move" /\ HasShift(i, legs)
                       THEN /\ phase' = "shift_turn"
                            /\ UNCHANGED <<pc, i>>
                       ELSE IF RangeHasNext(i, legs)
                            THEN /\ phase' = "leg_turn"
                                 /\ i' = i + 1
                                 /\ pc' = pc
                            ELSE /\ phase' = "end"
                                 /\ pc' = "offboard_stop"
                                 /\ i' = i
    /\ UNCHANGED <<strategy, connected, legs, length, spacing, speed>>
    /\ UNCHANGED misVars

OffboardStop ==
    /\ strategy = "velocity"
    /\ pc = "offboard_stop"
    /\ cmds' = Append(cmds, Cmd("offboard_stop", <<>>))
    /\ \E ok \in BOOLEAN :
          IF ok
          THEN /\ rejected' = rejected
               /\ clock' = clock + 1
               /\ pc' = "return_to_launch"
               /\ UNCHANGED <<i, phase>>
          ELSE /\ rejected' = rejected \cup {Len(cmds) + 1}
               /\ clock' = clock
               /\ Uncaught
    /\ UNCHANGED <<strategy, connected, legs, length, spacing, speed>>
    /\ UNCHANGED misVars

ReturnToLaunchReplacedByLand == ActionCall("return_to_launch", "land", <<>>, 0, "done")

ReturnToLaunch == ActionCall("return_to_launch", "return_to_launch", <<>>, 0, "done")

-----------------------------------------------------------------------------
(* src/ros2-test.py                                                        *)

Line(text, arg) == [text |-> text, arg |-> arg]

Printed(text) == \E k \in 1..Len(stdout) : stdout[k].text = text

None == [type |-> "None", seq |-> -1]

MissionRequest(seq) == [type |-> "MISSION_REQUEST", seq |-> seq]

MissionAck == [type |-> "MISSION_ACK", seq |-> -1]

DirectionNeverToggled(k) == 1

\* direction = 1; ... direction ^= 1 at the end of every sweep
Direction(k) == IF k % 2 = 0 THEN 1 ELSE 0

\* Coordinates are kept in the unit of the mission item, 1e-7 degree:
\* int(lat * 1e7), int(lon * 1e7).
SweepLat(k) == LAT_START_E7 + k * SPACING * DEG_E7

LonNear == LON_START_E7

LonFar == LON_START_E7 + SPACING * SWEEP_LENGTH * DEG_E7

SweepPoints(k) ==
    IF Direction(k) = 1
    THEN << <<SweepLat(k), LonNear>>, <<SweepLat(k), LonFar>> >>
    ELSE << <<SweepLat(k), LonFar>>, <<SweepLat(k), LonNear>> >>

RECURSIVE Waypoints(_)
Waypoints(n) == IF n = 0 THEN <<>> ELSE Waypoints(n - 1) \o SweepPoints(n - 1)

\* The sequence number put in the item sent in iteration k of the loop; the
\* message received in that iteration is not consulted.
ItemSeqFromRequest(k, m) == IF m.type = "MISSION_REQUEST" THEN m.seq ELSE k

ItemSeq(k, m) == k

MissionItem(k, m) ==
    Cmd("mission_item_int_send", <<ItemSeq(k, m), points[k + 1][1], points[k + 1][2], ALT>>)

\* A step of the script that sends one message and sleeps; pymavlink's send
\* neither waits for the vehicle nor reports a refusal.
MissionStep(at, sent, printed, next) ==
    /\ strategy = "mission"
    /\ pc = at
    /\ cmds' = cmds \o sent
    /\ stdout' = stdout \o printed
    /\ pc' = next
    /\ UNCHANGED <<strategy, connected, rejected, i, numSweeps, points, msg,
                   reqExpiredAt, reqWrongAt, reqRaisedAt, ackResult, waits>>
    /\ UNCHANGED velVars

\* master.wait_heartbeat() returns when a heartbeat arrives; until then the
\* script is blocked in it.
WaitHeartbeat ==
    /\ strategy = "mission"
    /\ pc = "wait_heartbeat"
    /\ connected' = TRUE
    /\ stdout' = Append(stdout, Line("Heartbeat received from system", -1))
    /\ pc' = "set_mode"
    /\ UNCHANGED <<strategy, cmds, rejected, i, numSweeps, points, msg,
                   reqExpiredAt, reqWrongAt, reqRaisedAt, ackResult, waits>>
    /\ UNCHANGED velVars

SetModeAuto ==
    MissionStep("set_mode", <<Cmd("set_mode_apm", <<>>)>>,
                <<Line("Set mode to AUTO", -1)>>, "arm_command")

SendArm ==
    MissionStep("arm_command", <<Cmd("MAV_CMD_COMPONENT_ARM_DISARM", <<1, 0, 0, 0, 0, 0, 0>>)>>,
                <<Line("Sent arm command", -1)>>, "takeoff_command")

SendTakeoff ==
    MissionStep("takeoff_command", <<Cmd("MAV_CMD_NAV_TAKEOFF", <<0, 0, 0, 0, 0, 0, ALT>>)>>,
                <<Line("Sent takeoff command", -1)>>, "generate")

GenerateWaypoints ==
    /\ strategy = "mission"
    /\ pc = "generate"
    /\ points' = Waypoints(numSweeps)
    /\ pc' = "mission_clear"
    /\ UNCHANGED <<strategy, connected, cmds, rejected, i, numSweeps, msg, stdout,
                   reqExpiredAt, reqWrongAt, reqRaisedAt, ackResult, waits>>
    /\ UNCHANGED velVars

ClearMission ==
    MissionStep("mission_clear", <<Cmd("mission_clear_all_send", <<>>)>>,
                <<Line("Cleared previous mission", -1)>>, "mission_count")

NumPointsOffByOne(pts) == Len(pts) - 1

\* num_points = len(points)
NumPoints(pts) == Len(pts)

SendMissionCount ==
    MissionStep("mission_count", <<Cmd("mission_count_send", <<NumPoints(points)>>)>>,
                <<>>, "mission_items")

AfterItemOffByOne(k, n) == IF k + 2 < n THEN "mission_items" ELSE "mission_ack"

\* The loop leaves for the ack wait after its last iteration.
AfterItem(k, n) == IF k + 1 < n THEN "mission_items" ELSE "mission_ack"

\* What recv_match(type='MISSION_REQUEST', blocking=True, timeout=5) can do:
\* return a MISSION_REQUEST (whatever its seq; it filters on the type only),
\* return None when the five seconds pass without one (pymavlink reports an
\* expired wait by None, not by an exception), or raise (a link error).
RequestOutcomes == {MissionRequest(q) : q \in 0..(Len(points) - 1)} \cup {None}

\* One iteration of "for i, (lat, lon) in enumerate(points)".
SendMissionItem ==
    /\ strategy = "mission"
    /\ pc = "mission_items"
    /\ i < Len(points)
    /\ waits' = waits + 1
    /\ \/ \E m \in RequestOutcomes :
             /\ msg' = m
             /\ stdout' = Append(stdout, Line("Sending waypoint", i))
             /\ cmds' = Append(cmds, MissionItem(i, m))
             /\ i' = i + 1
             /\ pc' = AfterItem(i, Len(points))
             /\ reqExpiredAt' = IF reqExpiredAt = -1 /\ m = None THEN i ELSE reqExpiredAt
             /\ reqWrongAt' = IF reqWrongAt = -1 /\ m # None /\ m.seq # i
                              THEN i ELSE reqWrongAt
             /\ reqRaisedAt' = reqRaisedAt
       \/ \* except Exception: print, break
          /\ stdout' = Append(stdout, Line("Timeout waiting for MISSION_REQUEST for waypoint", i))
          /\ pc' = "mission_ack"
          /\ reqRaisedAt' = i
          /\ UNCHANGED <<msg, cmds, i, reqExpiredAt, reqWrongAt>>
    /\ UNCHANGED <<strategy, connected, rejected, numSweeps, points, ackResult>>
    /\ UNCHANGED velVars

\* The line printed when recv_match(type='MISSION_ACK', ...) returns, with a
\* message or with None, and the line printed when it raises.
AckReturnedLine(m) == "Mission uploaded successfully"

WaitMissionAck ==
    /\ strategy = "mission"
    /\ pc = "mission_ack"
    /\ waits' = waits + 1
    /\ \/ \E m \in {MissionAck, None} :
             /\ msg' = m
             /\ ackResult' = IF m = None THEN "none" ELSE "ack"
             /\ stdout' = Append(stdout, Line(AckReturnedLine(m), -1))
       \/ /\ msg' = msg
          /\ ackResult' = "raised"
          /\ stdout' = Append(stdout, Line("MISSION_ACK not received", -1))
    /\ pc' = "set_mode_mission"
    /\ UNCHANGED <<strategy, connected, cmds, rejected, i, numSweeps, points,
                   reqExpiredAt, reqWrongAt, reqRaisedAt>>
    /\ UNCHANGED velVars

SetModeMission ==
    MissionStep("set_mode_mission", <<Cmd("set_mode_apm", <<>>)>>,
                <<Line("Set mode to AUTO.MISSION", -1)>>, "mission_start")

StartMission ==
    MissionStep("mission_start", <<Cmd("MAV_CMD_MISSION_START", <<0, 0, 0, 0, 0, 0, 0>>)>>,
                <<Line("Mission started", -1), Line("Waiting 60s for mission to run...", -1)>>,
                "rtl")

SendReturnToLaunchForgotten ==
    MissionStep("rtl", <<>>, <<Line("Sent RTL command", -1)>>, "done")

SendReturnToLaunch ==
    MissionStep("rtl", <<Cmd("MAV_CMD_NAV_RETURN_TO_LAUNCH", <<0, 0, 0, 0, 0, 0, 0>>)>>,
                <<Line("Sent RTL command", -1)>>, "done")

-----------------------------------------------------------------------------

InitVelocity ==
    /\ strategy = "velocity"
    /\ pc = "connection_state"
    /\ legs \in 1..MaxLegs
    /\ length \in Lengths
    /\ spacing \in Spacings
    /\ speed \in Speeds
    /\ numSweeps = 0

InitMission ==
    /\ strategy = "mission"
    /\ pc = "wait_heartbeat"
    /\ numSweeps \in 1..MaxSweeps
    /\ legs = 0
    /\ length = 0
    /\ spacing = 0
    /\ speed = 0

Init ==
    /\ (InitVelocity \/ InitMission)
    /\ connected = FALSE
    /\ cmds = <<>>
    /\ rejected = {}
    /\ clock = 0
    /\ i = 0
    /\ phase = "none"
    /\ points = <<>>
    /\ msg = [type |-> "unset", seq |-> -1]
    /\ stdout = <<>>
    /\ reqExpiredAt = -1
    /\ reqWrongAt = -1
    /\ reqRaisedAt = -1
    /\ ackResult = "pending"
    /\ waits = 0

Next ==
    \/ WaitConnected
    \/ SetTakeoffAltitude
    \/ Arm
    \/ Takeoff
    \/ SetInitialVelocity
    \/ OffboardStart
    \/ TurnTo
    \/ MoveForward
    \/ OffboardStop
    \/ ReturnToLaunch
    \/ WaitHeartbeat
    \/ SetModeAuto
    \/ SendArm
    \/ SendTakeoff
    \/ GenerateWaypoints
    \/ ClearMission
    \/ SendMissionCount
    \/ SendMissionItem
    \/ WaitMissionAck
    \/ SetModeMission
    \/ StartMission
    \/ SendReturnToLaunch

Spec == Init /\ [][Next]_vars

\* The steps of the mission script after wait_heartbeat(): each is a send, a
\* time.sleep() or a recv_match with timeout=5, so each of them ends.
MissionProgress ==
    \/ SetModeAuto
    \/ SendArm
    \/ SendTakeoff
    \/ GenerateWaypoints
    \/ ClearMission
    \/ SendMissionCount
    \/ SendMissionItem
    \/ WaitMissionAck
    \/ SetModeMission
    \/ StartMission
    \/ SendReturnToLaunch

FairSpec == Init /\ [][Next]_vars /\ WF_vars(MissionProgress)

-----------------------------------------------------------------------------
(* Observations used by the properties.                                    *)

SentItems == SelectOp(cmds, "mission_item_int_send")

ItemSeqs == LET sent == SentItems IN [k \in 1..Len(sent) |-> sent[k].args[1]]

Iota(n) == [k \in 1..n |-> k - 1]

AnnouncedCount ==
    IF Count(cmds, "mission_count_send") = 0 THEN 0
    ELSE SelectOp(cmds, "mission_count_send")[1].args[1]

AfterAckWait == pc \in {"set_mode_mission", "mission_start", "rtl", "done"}

\* Every MISSION_REQUEST wait so far was answered by the request for its own index.
RequestsInOrder == reqExpiredAt = -1 /\ reqWrongAt = -1 /\ reqRaisedAt = -1

AbortLine == "Timeout waiting for MISSION_REQUEST for waypoint"

UploadAborted == Printed(AbortLine)

UploadUnconfirmed == Printed("MISSION_ACK not received")

UploadComplete ==
    /\ Printed("Mission uploaded successfully")
    /\ ~UploadAborted
    /\ ~UploadUnconfirmed

ReportedCount == {stdout[k].arg : k \in {j \in 1..Len(stdout) : stdout[j].text = AbortLine}}

MissionStartSent == Count(cmds, "MAV_CMD_MISSION_START") > 0

-----------------------------------------------------------------------------
(* Mission upload (src/ros2-test.py).                                      *)

\* C1: when every item-request arrived for its own index, in order, and the
\* ack arrived, the upload is reported successful and the items sent are
\* exactly the indices 0..n-1, once each, in order.
C1_HappyPath ==
    (strategy = "mission" /\ AfterAckWait /\ RequestsInOrder /\ ackResult = "ack")
       => /\ UploadComplete
          /\ ItemSeqs = Iota(Len(points))
          /\ Len(points) = 2 * numSweeps

C1_Witness ==
    /\ strategy = "mission"
    /\ pc = "done"
    /\ RequestsInOrder
    /\ ackResult = "ack"
    /\ numSweeps = NUM_SWEEPS
    /\ Len(SentItems) = 2 * NUM_SWEEPS

\* C2 (as claimed): when the wait for the request of index i expires, the
\* upload aborts, neither item i nor a later item is sent, and i is reported
\* as the number of items transferred.
C2_TimeoutAborts ==
    (strategy = "mission" /\ reqExpiredAt # -1)
       => /\ UploadAborted
          /\ LET seqs == ItemSeqs IN \A k \in 1..Len(seqs) : seqs[k] < reqExpiredAt
          /\ ReportedCount = {reqExpiredAt}

\* C3 (as claimed): when the wait for index k is answered by a request for
\* another index, the upload aborts and no further item is sent.
C3_OutOfOrderAborts ==
    (strategy = "mission" /\ reqWrongAt # -1)
       => /\ UploadAborted
          /\ Len(SentItems) <= reqWrongAt

\* C4 (as claimed): when all n items were sent and the ack wait expires, the
\* outcome is the unconfirmed one, not success and not abort, with as many
\* items sent as were announced.
C4_AckTimeoutUnconfirmed ==
    (strategy = "mission" /\ ackResult = "none" /\ i = Len(points))
       => /\ UploadUnconfirmed
          /\ ~Printed("Mission uploaded successfully")
          /\ ~UploadAborted
          /\ Len(SentItems) = AnnouncedCount

\* C5 (as claimed): the mission-start command is sent only after all items
\* were sent and the ack was received.
C5_StartOnlyAfterComplete ==
    (strategy = "mission" /\ MissionStartSent)
       => /\ Len(SentItems) = Len(points)
          /\ ackResult = "ack"

\* C9: whatever the vehicle does, the indices of the items sent are
\* 0,1,...,k-1 for some k not above the announced count: no gap, no repeat,
\* none at or beyond the count.
C9_ContiguousIndices ==
    strategy = "mission"
       => LET seqs == ItemSeqs
          IN /\ seqs = Iota(Len(seqs))
             /\ Len(seqs) <= AnnouncedCount
             /\ \A k \in 1..Len(seqs) : seqs[k] < AnnouncedCount

C9_Witness ==
    /\ strategy = "mission"
    /\ pc = "done"
    /\ reqWrongAt # -1
    /\ reqExpiredAt # -1
    /\ reqRaisedAt # -1
    /\ Len(SentItems) >= 3

-----------------------------------------------------------------------------
(* Velocity strategy (src/mavsdk-px4.py).                                  *)

VelocityCmds == SelectOp(cmds, "set_velocity_ned")

\* The velocity commands of the path traversal: those after the setpoint
\* that run() sets before it asks for offboard mode.
PathArgs ==
    LET v == VelocityCmds
    IN IF Count(cmds, "offboard_start") = 0 \/ v = <<>> THEN <<>>
       ELSE [k \in 1..(Len(v) - 1) |-> v[k + 1].args]

\* boustrophedon_path has returned.
PathDone == strategy = "velocity" /\ phase = "end"

StartRejected == \E k \in rejected : cmds[k].op = "offboard_start"

\* Positions of the velocity commands refused after offboard mode started.
MidRunRejected ==
    {k \in rejected : /\ cmds[k].op = "set_velocity_ned"
                      /\ \E j \in 1..(k - 1) : cmds[j].op = "offboard_start"}

\* C6 (as claimed): when offboard start is rejected, disarm is invoked
\* exactly once, no velocity command is issued in the execution, and neither
\* offboard stop nor return-to-launch is issued.
C6_NoVelocityCommandAtAll ==
    (strategy = "velocity" /\ StartRejected)
       => /\ Count(cmds, "disarm") = 1
          /\ Count(cmds, "set_velocity_ned") = 0
          /\ Count(cmds, "offboard_stop") = 0
          /\ Count(cmds, "return_to_launch") = 0

\* C6 (amended): when offboard start is rejected, disarm is invoked exactly
\* once and is the last call of the execution, directly after the refused
\* start; the only velocity command of the execution is the zero setpoint
\* set before the start was asked for; no leg is attempted and neither
\* offboard stop nor return-to-launch is issued.
C6_StartRejectedDisarms ==
    (strategy = "velocity" /\ StartRejected)
       => /\ Count(cmds, "disarm") = 1
          /\ cmds[Len(cmds)].op = "disarm"
          /\ cmds[Len(cmds) - 1].op = "offboard_start"
          /\ Positions(cmds, "set_velocity_ned") = {Len(cmds) - 2}
          /\ cmds[Len(cmds) - 2].args = VelocityNedYaw(0, 0, 0, 0)
          /\ Count(cmds, "offboard_stop") = 0
          /\ Count(cmds, "return_to_launch") = 0
          /\ pc \in {"returned", "crashed"}

C6_Witness ==
    /\ strategy = "velocity"
    /\ StartRejected
    /\ pc = "returned"
    /\ Count(cmds, "disarm") = 1

\* C7: a completed traversal emitted, for every segment, exactly turn (zero
\* velocity, target yaw), move (signed speed, same yaw), brake (zero
\* velocity, same yaw), with +speed on forward legs and shifts and -speed on
\* backward legs; for 2 legs the whole sequence is the nine commands listed.
C7_CommandOrder ==
    PathDone
       => LET a == PathArgs
              nseg == Len(a) \div 3
          IN /\ Len(a) = 3 * nseg
             /\ \A s \in 0..(nseg - 1) :
                   LET turn == a[3 * s + 1]
                       move == a[3 * s + 2]
                       brake == a[3 * s + 3]
                   IN /\ turn = <<0, 0, 0, turn[4]>>
                      /\ move = <<move[1], 0, 0, turn[4]>>
                      /\ brake = turn
                      /\ turn[4] \in {0, 90} => move[1] = speed
                      /\ turn[4] = 180 => move[1] = 0 - speed
                      /\ turn[4] \in {0, 90, 180}
             /\ legs = 2 =>
                   a = << <<0, 0, 0, 0>>, <<speed, 0, 0, 0>>, <<0, 0, 0, 0>>,
                          <<0, 0, 0, 90>>, <<speed, 0, 0, 90>>, <<0, 0, 0, 90>>,
                          <<0, 0, 0, 180>>, <<0 - speed, 0, 0, 180>>, <<0, 0, 0, 180>> >>

C7_Witness ==
    /\ PathDone
    /\ legs = 2
    /\ pc = "offboard_stop"
    /\ Len(PathArgs) = 9

\* The yaw of the turn command of every segment of the traversal.
SegmentYaws ==
    LET a == PathArgs
    IN [s \in 1..(Len(a) \div 3) |-> a[3 * s - 2][4]]

\* C8: a completed traversal has 2*legs - 1 segments: legs sweep legs and
\* legs - 1 shifts, none after the last leg; leg k is flown at yaw 0 when k
\* is even and 180 when k is odd, every shift at yaw 90; with the arguments
\* run() passes (4, 10, 3, 1) the yaw sequence is 0,90,180,90,0,90,180.
C8_SegmentsAndYaws ==
    PathDone
       => LET yaws == SegmentYaws
              n == Len(yaws)
          IN /\ Len(PathArgs) = 3 * n
             /\ n = 2 * legs - 1
             /\ Cardinality({s \in 1..n : s % 2 = 1}) = legs
             /\ Cardinality({s \in 1..n : yaws[s] = 90}) = legs - 1
             /\ \A s \in 1..n :
                   yaws[s] = IF s % 2 = 0 THEN 90
                             ELSE IF ((s - 1) \div 2) % 2 = 0 THEN 0 ELSE 180
             /\ yaws[n] # 90
             /\ (legs = 4 /\ length = 10 /\ spacing = 3 /\ speed = 1)
                   => yaws = <<0, 90, 180, 90, 0, 90, 180>>

C8_Witness ==
    /\ PathDone
    /\ pc = "done"
    /\ legs = RunLegs
    /\ length = RunLength
    /\ spacing = RunSpacing
    /\ speed = RunSpeed
    /\ Len(SegmentYaws) = 7

\* C10 (as claimed): when a velocity command is refused during the
\* traversal, the run stops, no command follows the refused one except those
\* of the failure path, and the failure path issues a disarm.
C10_RejectedVelocityDisarms ==
    (strategy = "velocity" /\ MidRunRejected # {})
       => /\ pc \in {"returned", "crashed"}
          /\ \A k \in MidRunRejected :
                \A j \in (k + 1)..Len(cmds) : cmds[j].op # "set_velocity_ned"
          /\ Count(cmds, "disarm") >= 1

\* Positions of the arm and takeoff calls the vehicle refused.
ArmTakeoffRejected == {k \in rejected : cmds[k].op \in {"arm", "takeoff"}}

\* C11 (as claimed): when arm or takeoff is refused, a disarm is issued, and
\* neither offboard start nor a velocity command follows.
C11_ArmTakeoffRejectedDisarms ==
    (strategy = "velocity" /\ ArmTakeoffRejected # {})
       => /\ Count(cmds, "disarm") >= 1
          /\ Count(cmds, "offboard_start") = 0
          /\ Count(cmds, "set_velocity_ned") = 0

-----------------------------------------------------------------------------
(* Waypoint generation (src/ros2-test.py).                                 *)

\* The waypoint list has been generated.
Generated == strategy = "mission" /\ pc \notin {"wait_heartbeat", "set_mode", "arm_command",
                                                "takeoff_command", "generate"}

\* C12: the generated list has 2 * sweeps points; the two points of sweep k
\* share the perpendicular coordinate (latitude) start + spacing * k and
\* differ along the primary axis (longitude); the direction of travel
\* alternates, so the end of sweep k and the start of sweep k + 1 have the
\* same longitude and are one spacing apart in latitude.
C12_WaypointShape ==
    Generated
       => /\ Len(points) = 2 * numSweeps
          /\ \A k \in 0..(numSweeps - 1) :
                LET first == points[2 * k + 1]
                    last == points[2 * k + 2]
                IN /\ first[1] = LAT_START_E7 + SPACING * DEG_E7 * k
                   /\ last[1] = first[1]
                   /\ {first[2], last[2]} =
                         {LON_START_E7, LON_START_E7 + SPACING * SWEEP_LENGTH * DEG_E7}
                   /\ (k % 2 = 0) = (last[2] > first[2])
          /\ \A k \in 0..(numSweeps - 2) :
                LET last == points[2 * k + 2]
                    next == points[2 * k + 3]
                IN /\ next[2] = last[2]
                   /\ next[1] - last[1] = SPACING * DEG_E7

C12_Witness ==
    /\ Generated
    /\ pc = "mission_clear"
    /\ numSweeps = NUM_SWEEPS
    /\ Len(points) = 10

-----------------------------------------------------------------------------
(* Geometry of the velocity strategy, for a vehicle that flies every       *)
(* commanded velocity exactly from the moment of the command to the next   *)
(* command.  VelocityNedYaw is (north, east, down, yaw): axis 1 is north,  *)
(* the axis of the legs (yaw 0 / 180), axis 2 is east.                     *)

\* Displacement along `axis` when the k-th velocity command of v is issued.
RECURSIVE Displacement(_, _, _)
Displacement(v, k, axis) ==
    IF k <= 1 THEN 0
    ELSE Displacement(v, k - 1, axis) + v[k - 1].args[axis] * (v[k].at - v[k - 1].at)

Abs(x) == IF x < 0 THEN 0 - x ELSE x

\* In VelocityCmds: the initial setpoint, then turn, move, brake per segment;
\* leg k is segment 2k, the shift after it segment 2k + 1.
MoveIndex(seg) == 3 * seg + 3

BrakeIndex(seg) == 3 * seg + 4

\* C13 (as claimed): every shift moves the vehicle perpendicular to the leg
\* axis by spacing and not along it, so leg k is flown at perpendicular
\* offset spacing * k, and consecutive legs fly in opposite directions.
C13_LateralOffset ==
    PathDone
       => LET v == VelocityCmds
          IN /\ \A k \in 0..(legs - 1) :
                   /\ Abs(Displacement(v, MoveIndex(2 * k), 2)) = spacing * k
                   /\ Abs(Displacement(v, BrakeIndex(2 * k), 2)) = spacing * k
             /\ \A k \in 0..(legs - 2) :
                   /\ Displacement(v, BrakeIndex(2 * k + 1), 1)
                         = Displacement(v, MoveIndex(2 * k + 1), 1)
                   /\ v[MoveIndex(2 * k)].args[1] = 0 - v[MoveIndex(2 * k + 2)].args[1]

\* C14 (as claimed): every move command is held for segment length / speed
\* before its brake, so that the distance flown is the segment length
\* (length on a leg, spacing on a shift); commands are issued in time order.
C14_HoldIsLengthOverSpeed ==
    PathDone
       => LET v == VelocityCmds
          IN /\ \A seg \in 0..(2 * legs - 2) :
                   (v[BrakeIndex(seg)].at - v[MoveIndex(seg)].at) * speed
                      = IF seg % 2 = 0 THEN length ELSE spacing
             /\ \A k \in 1..(Len(v) - 1) : v[k].at <= v[k + 1].at

-----------------------------------------------------------------------------
(* Session order (both scripts).                                           *)

\* C15: no call is made on the vehicle before the script has seen a
\* connected state (velocity) or a heartbeat (mission); until then the
\* script stays at its connection wait.
C15_ConnectionGate ==
    ~connected
       => /\ cmds = <<>>
          /\ pc = IF strategy = "velocity" THEN "connection_state" ELSE "wait_heartbeat"

C15_Witness ==
    /\ strategy = "velocity"
    /\ connected
    /\ pc = "arm"
    /\ Len(cmds) = 1
    /\ cmds[1].op = "set_takeoff_altitude"

\* The one position of op in cmds (0 when it was not called exactly once).
PositionOf(op) ==
    IF Count(cmds, op) = 1 THEN CHOOSE k \in 1..Len(cmds) : cmds[k].op = op ELSE 0

\* C16: a velocity run that completes issued set-takeoff-altitude, arm,
\* takeoff, offboard start, the path's commands, offboard stop and
\* return-to-launch in this order, each of the six once; return-to-launch
\* is the last call, after the last leg's brake, and no velocity command
\* follows offboard stop.
C16_VelocitySessionOrder ==
    (strategy = "velocity" /\ pc = "done")
       => LET alt == PositionOf("set_takeoff_altitude")
              arm == PositionOf("arm")
              takeoff == PositionOf("takeoff")
              start == PositionOf("offboard_start")
              stop == PositionOf("offboard_stop")
              rtl == PositionOf("return_to_launch")
              path == {k \in Positions(cmds, "set_velocity_ned") : k > start}
          IN /\ 0 < alt /\ alt < arm /\ arm < takeoff /\ takeoff < start
             /\ start < stop /\ stop < rtl
             /\ rtl = Len(cmds)
             /\ Cardinality(path) = 3 * (2 * legs - 1)
             /\ \A k \in path : k < stop
             /\ \A k \in Positions(cmds, "set_velocity_ned") : k < stop
             /\ cmds[stop - 1].op = "set_velocity_ned"
             /\ cmds[stop - 1].args = VelocityNedYaw(0, 0, 0, LegYaw(legs - 1))
             /\ rejected = {}

C16_Witness ==
    /\ strategy = "velocity"
    /\ pc = "done"
    /\ legs = RunLegs
    /\ cmds[Len(cmds)].op = "return_to_launch"

\* C17: in the mission script the clear is sent before the count, the count
\* at most once (once in a run that got past it) and before every item,
\* and the count announced is the number of generated points, 2 * sweeps.
C17_UploadPreamble ==
    strategy = "mission"
       => LET clears == Positions(cmds, "mission_clear_all_send")
              counts == Positions(cmds, "mission_count_send")
              items == Positions(cmds, "mission_item_int_send")
          IN /\ Cardinality(counts) <= 1
             /\ Cardinality(clears) <= 1
             /\ (pc \in {"mission_items", "mission_ack", "set_mode_mission",
                         "mission_start", "rtl", "done"})
                   => (Cardinality(counts) = 1 /\ Cardinality(clears) = 1)
             /\ \A c \in counts :
                   /\ \E k \in clears : k < c
                   /\ cmds[c].args = <<Len(points)>>
                   /\ cmds[c].args[1] = 2 * numSweeps
             /\ \A it \in items : \E c \in counts : c < it

C17_Witness ==
    /\ strategy = "mission"
    /\ pc = "mission_ack"
    /\ numSweeps = NUM_SWEEPS
    /\ AnnouncedCount = 2 * NUM_SWEEPS
    /\ Len(SentItems) = AnnouncedCount

-----------------------------------------------------------------------------
(* Progress of the mission script.                                         *)

ReturnToLaunchSent == Positions(cmds, "MAV_CMD_NAV_RETURN_TO_LAUNCH")

\* C18: whatever the vehicle sends or does not send, the mission script makes
\* at most one wait per path item and one for the ack, and once the
\* heartbeat was received it reaches its end, where return-to-launch has
\* been sent exactly once, as the last command.
C18_BoundedProgress ==
    /\ [](strategy = "mission" => waits <= 2 * numSweeps + 1)
    /\ []((strategy = "mission" /\ pc # "done") => ReturnToLaunchSent = {})
    /\ []((strategy = "mission" /\ pc = "done")
             => (ReturnToLaunchSent = {Len(cmds)} /\ waits <= Len(points) + 1))
    /\ ((strategy = "mission" /\ connected) ~> (pc = "done"))

C18_Witness ==
    /\ strategy = "mission"
    /\ pc = "done"
    /\ reqExpiredAt = 0
    /\ reqRaisedAt = 1
    /\ ackResult = "none"
    /\ waits = 3
    /\ numSweeps = NUM_SWEEPS

=============================================================================
